---- MODULE Spec2Model ----
(***************************************************************************)
(* Model of src/shaders.rs: the vertex transform stage (vertex_shader),    *)
(* the fragment dispatch (fragment_shader) and the six procedural shader   *)
(* variants.                                                               *)
(*                                                                         *)
(* f32 values are modelled as extended rationals <<n, d>> in lowest terms  *)
(* with d >= 0: d > 0 is the finite value n/d, <<1,0>> is +infinity,       *)
(* <<-1,0>> is -infinity and <<0,0>> is NaN.  Arithmetic follows IEEE-754  *)
(* for the special values (x/0, 0*inf, inf-inf, comparisons with NaN);     *)
(* rounding of finite values is not modelled, except in Sqrt and Sin,      *)
(* which round to a fixed number of decimals.  The sign of zero is not     *)
(* tracked.                                                                *)
(***************************************************************************)
EXTENDS Integers, Sequences, FiniteSets, TLC

VARIABLES
    pc,         \* position of the sequential caller: "idle", "running", "done"
    call,       \* the pending call: function name and its arguments
    ret,        \* the value the call returned
    lerp_t,     \* the blend factors the call passed to Color::lerp, in order
    circle_mask, i, j, iters, lpc,   \* noise_shader's circle search, stepwise
    lfragment, luniforms, lret,      \* ... its arguments and the colour returned
    shared,     \* the Uniforms shared by the concurrent workers
    wpc, wcall, wlocal, wret         \* per worker: position, call, locals, result

vars == <<pc, call, ret, lerp_t, circle_mask, i, j, iters, lpc, lfragment, luniforms, lret,
          shared, wpc, wcall, wlocal, wret>>

seqVars == <<pc, call, ret, lerp_t>>
loopVars == <<circle_mask, i, j, iters, lpc, lfragment, luniforms, lret>>
parVars == <<shared, wpc, wcall, wlocal, wret>>

-----------------------------------------------------------------------------
(* f32 arithmetic on extended rationals *)

AbsInt(n) == IF n < 0 THEN -n ELSE n

SignInt(n) == IF n < 0 THEN -1 ELSE IF n > 0 THEN 1 ELSE 0

RECURSIVE GCD(_, _)
GCD(a, b) == IF b = 0 THEN a ELSE GCD(b, a % b)

\* the value n/d in lowest terms; n/0 is an infinity or NaN
Q(n, d) ==
    IF d = 0 THEN <<SignInt(n), 0>>
    ELSE LET g == GCD(AbsInt(n), AbsInt(d))
             s == IF d < 0 THEN -1 ELSE 1
         IN  <<s * (n \div g), s * (d \div g)>>

F(n) == <<n, 1>>

NaN == <<0, 0>>
PosInf == <<1, 0>>
NegInf == <<-1, 0>>

IsNaN(a) == a = NaN
IsFinite(a) == a[2] > 0

Neg(a) == <<-a[1], a[2]>>

Mul(a, b) == Q(a[1] * b[1], a[2] * b[2])

Add(a, b) ==
    IF a[2] = 0 /\ b[2] = 0
    THEN (IF a = b THEN a ELSE NaN)
    ELSE Q(a[1] * b[2] + b[1] * a[2], a[2] * b[2])

Sub(a, b) == Add(a, Neg(b))

Recip(a) ==
    IF a[2] = 0 THEN (IF IsNaN(a) THEN NaN ELSE F(0))
    ELSE IF a[1] = 0 THEN PosInf
    ELSE IF a[1] < 0 THEN <<-a[2], -a[1]>>
    ELSE <<a[2], a[1]>>

Div(a, b) == Mul(a, Recip(b))

\* a < b; false whenever an operand is NaN
Lt(a, b) ==
    IF IsNaN(a) \/ IsNaN(b) THEN FALSE
    ELSE IF a[2] = 0 /\ b[2] = 0 THEN a[1] < b[1]
    ELSE a[1] * b[2] < b[1] * a[2]

Gt(a, b) == Lt(b, a)

Le(a, b) == (~IsNaN(a)) /\ (~IsNaN(b)) /\ ~Lt(b, a)

\* f32::clamp: NaN stays NaN
Clamp(a, lo, hi) == IF Lt(a, lo) THEN lo ELSE IF Gt(a, hi) THEN hi ELSE a

\* f32::max: a NaN operand is ignored
Max(a, b) == IF IsNaN(a) THEN b ELSE IF IsNaN(b) THEN a ELSE IF Lt(a, b) THEN b ELSE a

Abs(a) == <<AbsInt(a[1]), a[2]>>

Sq(a) == Mul(a, a)

\* floor(a * k) for finite a and integer k > 0
FloorScaled(a, k) == (a[1] \div a[2]) * k + ((a[1] % a[2]) * k) \div a[2]

\* the largest r in lo..hi with r * r <= n, by bisection
RECURSIVE ISqrtIn(_, _, _)
ISqrtIn(n, lo, hi) ==
    IF lo >= hi THEN lo
    ELSE LET mid == (lo + hi + 1) \div 2
         IN  IF mid * mid <= n THEN ISqrtIn(n, mid, hi) ELSE ISqrtIn(n, lo, mid - 1)

ISqrt(n) == ISqrtIn(n, 0, IF n < 46340 THEN n ELSE 46340)

\* decimals kept by Sqrt and Sin: results are multiples of 1/Precision
Precision == 100

\* f32::sqrt, rounded down to a multiple of 1/Precision
Sqrt(a) ==
    IF IsNaN(a) \/ Lt(a, F(0)) THEN NaN
    ELSE IF a = PosInf THEN PosInf
    ELSE Q(ISqrt(FloorScaled(a, Precision * Precision)), Precision)

\* Bhaskara's approximation of sin on a half period of 314 hundredths
HalfSin(k) == Q(16 * k * (314 - k), 5 * 314 * 314 - 4 * k * (314 - k))

\* f32::sin: period 6.28, odd, |sin| <= 1, rounded to a multiple of 1/Precision
Sin(a) ==
    IF ~IsFinite(a) THEN NaN
    ELSE LET k == FloorScaled(a, 100) % 628
             h == IF k < 314 THEN HalfSin(k) ELSE Neg(HalfSin(k - 314))
         IN  Q(FloorScaled(h, Precision), Precision)

-----------------------------------------------------------------------------
(* nalgebra_glm vectors and matrices: a vector is a tuple of f32, a matrix  *)
(* a tuple of rows                                                          *)

Dot3(a, b) == Add(Add(Mul(a[1], b[1]), Mul(a[2], b[2])), Mul(a[3], b[3]))

Dot4(a, b) == Add(Dot3(a, b), Mul(a[4], b[4]))

MatVec4(m, v) == [r \in 1..4 |-> Dot4(m[r], v)]

Col4(m, c) == [k \in 1..4 |-> m[k][c]]

MatMul4(a, b) == [r \in 1..4 |-> [c \in 1..4 |-> Dot4(a[r], Col4(b, c))]]

MatVec3(m, v) == [r \in 1..3 |-> Dot3(m[r], v)]

Col3(m, c) == [k \in 1..3 |-> m[k][c]]

MatMul3(a, b) == [r \in 1..3 |-> [c \in 1..3 |-> Dot3(a[r], Col3(b, c))]]

Identity3 == [r \in 1..3 |-> [c \in 1..3 |-> IF r = c THEN F(1) ELSE F(0)]]

Identity4 == [r \in 1..4 |-> [c \in 1..4 |-> IF r = c THEN F(1) ELSE F(0)]]

\* the upper-left 3x3 block
mat4_to_mat3(m) == [r \in 1..3 |-> [c \in 1..3 |-> m[r][c]]]

Transpose3(m) == [r \in 1..3 |-> [c \in 1..3 |-> m[c][r]]]

\* the 2x2 minor of m without row r and column c, signed
Cofactor3(m, r, c) ==
    LET r1 == IF r = 1 THEN 2 ELSE 1
        r2 == IF r = 3 THEN 2 ELSE 3
        c1 == IF c = 1 THEN 2 ELSE 1
        c2 == IF c = 3 THEN 2 ELSE 3
        minor == Sub(Mul(m[r1][c1], m[r2][c2]), Mul(m[r1][c2], m[r2][c1]))
    IN  IF (r + c) % 2 = 0 THEN minor ELSE Neg(minor)

Det3(m) ==
    Add(Add(Mul(m[1][1], Cofactor3(m, 1, 1)), Mul(m[1][2], Cofactor3(m, 1, 2))),
        Mul(m[1][3], Cofactor3(m, 1, 3)))

\* Option<Mat3>: <<>> is None, <<m>> is Some(m)
try_inverse(m) ==
    LET det == Det3(m)
    IN  IF det = F(0) THEN <<>>
        ELSE << [r \in 1..3 |-> [c \in 1..3 |-> Div(Cofactor3(m, c, r), det)]] >>

\* faulty variant: None becomes the zero matrix (unwrap_or_default)
unwrap_or_zero(opt, default) ==
    IF opt = <<>> THEN [r \in 1..3 |-> [c \in 1..3 |-> F(0)]] ELSE opt[1]

unwrap_or(opt, default) == IF opt = <<>> THEN default ELSE opt[1]

Norm3(v) == Sqrt(Dot3(v, v))

Normalize3(v) == LET n == Norm3(v) IN [k \in 1..3 |-> Div(v[k], n)]

-----------------------------------------------------------------------------
(* crate::color::Color: three 8-bit channels <<r, g, b>> *)

Color_new(r, g, b) == <<r, g, b>>

\* f32 -> u8: saturating, truncating, NaN to 0
ToU8(a) ==
    IF IsNaN(a) \/ Lt(a, F(0)) THEN 0
    ELSE IF Gt(a, F(255)) THEN 255
    ELSE a[1] \div a[2]

\* Color::lerp(&self, other, t): linear interpolation per channel
lerp(self, other, t) ==
    [k \in 1..3 |-> ToU8(Add(F(self[k]), Mul(F(other[k] - self[k]), t)))]

\* Color * f32: every channel multiplied and clamped to the channel range
Scale(self, factor) == [k \in 1..3 |-> ToU8(Mul(F(self[k]), factor))]

Black == Color_new(0, 0, 0)

-----------------------------------------------------------------------------
(* The noise source (uniforms.noise): a deterministic 2D scalar field.  The *)
(* field of seed `noise` takes, in the unit cell of (x, y), one of the      *)
(* values of NoiseTable; the table holds the values the variants compare    *)
(* the noise with, values between them, the ends of the range [-1, 1] and   *)
(* one value above it.                                                      *)

\* moon_shader_bright_craters: the pulsating threshold at time `time`
crater_threshold(time) ==
    LET t == Mul(F(time), Q(1, 10))
        pulsate == Mul(Sin(Mul(t, Q(1, 2))), Q(5, 100))
    IN  Add(Q(4, 10), pulsate)

NoiseTable ==
    << F(-1), F(0), Q(1, 5), Q(3, 10), Q(7, 20), Q(2, 5),
       Q(3, 5), Q(13, 20), Q(7, 10), Q(4, 5), F(1), Q(3, 2),
       crater_threshold(10), Sub(crater_threshold(10), Q(1, 10)) >>

Seeds == 0..(Len(NoiseTable) - 1)

get_noise_2d(noise, x, y) ==
    IF ~(IsFinite(x) /\ IsFinite(y)) THEN NaN
    ELSE NoiseTable[((noise + FloorScaled(x, 1) + 3 * FloorScaled(y, 1))
                     % Len(NoiseTable)) + 1]

-----------------------------------------------------------------------------
(* The shader variants.  A fragment is a record [vertex_position, normal,   *)
(* intensity, color]; uniforms is a record [model_matrix, view_matrix,      *)
(* projection_matrix, viewport_matrix, time, noise].                        *)

\* ripple_shader: the blend factor passed to lerp
ripple_color_factor(fragment, uniforms) ==
    LET pos == fragment.vertex_position
        wave_speed == Q(3, 10)
        wave_frequency == F(10)
        wave_amplitude == Q(5, 100)
        time == Mul(F(uniforms.time), wave_speed)
        distance == Sqrt(Add(Sq(pos[1]), Sq(pos[2])))
        ripple == Mul(Sin(Mul(wave_frequency, Sub(distance, time))), wave_amplitude)
    IN  Clamp(ripple, F(0), F(1))

\* ripple_shader: final_color, before the intensity is applied
ripple_final_color(fragment, uniforms) ==
    LET base_color == Color_new(70, 130, 180)
        ripple_color == Color_new(173, 216, 230)
    IN  lerp(base_color, ripple_color, ripple_color_factor(fragment, uniforms))

\* faulty variant: the final multiplication by the intensity is dropped
ripple_shader_unscaled(fragment, uniforms) == ripple_final_color(fragment, uniforms)

ripple_shader(fragment, uniforms) ==
    Scale(ripple_final_color(fragment, uniforms), fragment.intensity)

sun_noise_value(fragment, uniforms) ==
    LET zoom == F(50)
        x == fragment.vertex_position[1]
        y == fragment.vertex_position[2]
        time == Mul(F(uniforms.time), Q(1, 100))
    IN  get_noise_2d(uniforms.noise, Add(Mul(x, zoom), time), Add(Mul(y, zoom), time))

\* faulty variant: the noise value is passed to lerp unclamped
sun_lerp_t_unclamped(fragment, uniforms) == sun_noise_value(fragment, uniforms)

\* sun_shader: the blend factor passed to lerp
sun_lerp_t(fragment, uniforms) ==
    Clamp(sun_noise_value(fragment, uniforms), F(0), F(1))

sun_final_color(fragment, uniforms) ==
    LET noise_value == sun_noise_value(fragment, uniforms)
        bright_color == Color_new(255, 255, 102)
        dark_spot_color == Color_new(139, 0, 0)
        base_color == Color_new(255, 69, 0)
        spot_threshold == Q(6, 10)
        noise_color == IF Lt(noise_value, spot_threshold)
                       THEN bright_color ELSE dark_spot_color
    IN  lerp(base_color, noise_color, sun_lerp_t(fragment, uniforms))

sun_shader(fragment, uniforms) ==
    Scale(sun_final_color(fragment, uniforms), fragment.intensity)

moon_surface_noise(fragment, uniforms) ==
    LET zoom == F(50)
        x == fragment.vertex_position[1]
        y == fragment.vertex_position[2]
        t == Mul(F(uniforms.time), Q(1, 10))
    IN  get_noise_2d(uniforms.noise, Add(Mul(x, zoom), t), Add(Mul(y, zoom), t))

gray_color == Color_new(200, 200, 200)
bright_crater_color == Color_new(220, 220, 220)
dynamic_color == Color_new(250, 250, 250)

\* faulty variant: both comparisons include the boundary (>=)
moon_base_color_inclusive(fragment, uniforms) ==
    LET surface_noise == moon_surface_noise(fragment, uniforms)
        threshold == crater_threshold(uniforms.time)
    IN  IF Le(threshold, surface_noise) THEN gray_color
        ELSE IF Le(Sub(threshold, Q(1, 10)), surface_noise) THEN bright_crater_color
        ELSE dynamic_color

\* moon_shader_bright_craters: base_color, before the intensity is applied
moon_base_color(fragment, uniforms) ==
    LET surface_noise == moon_surface_noise(fragment, uniforms)
        threshold == crater_threshold(uniforms.time)
    IN  IF Gt(surface_noise, threshold) THEN gray_color
        ELSE IF Gt(surface_noise, Sub(threshold, Q(1, 10))) THEN bright_crater_color
        ELSE dynamic_color

moon_shader_bright_craters(fragment, uniforms) ==
    Scale(moon_base_color(fragment, uniforms), fragment.intensity)

earth_base_color(fragment, uniforms) ==
    LET zoom == F(80)
        x == fragment.vertex_position[1]
        y == fragment.vertex_position[2]
        t == Mul(F(uniforms.time), Q(1, 10))
        surface_noise == get_noise_2d(uniforms.noise, Add(Mul(x, zoom), t), Mul(y, zoom))
        ocean_color == Color_new(0, 105, 148)
        land_color == Color_new(34, 139, 34)
        desert_color == Color_new(210, 180, 140)
        snow_color == Color_new(255, 250, 250)
        snow_threshold == Q(7, 10)
        land_threshold == Q(4, 10)
        desert_threshold == Q(3, 10)
    IN  IF Gt(Abs(y), snow_threshold) THEN snow_color
        ELSE IF Gt(surface_noise, land_threshold) THEN land_color
        ELSE IF Gt(surface_noise, desert_threshold) THEN desert_color
        ELSE ocean_color

earth_cloud_noise(fragment, uniforms) ==
    LET cloud_zoom == F(100)
        x == fragment.vertex_position[1]
        y == fragment.vertex_position[2]
        t == Mul(F(uniforms.time), Q(1, 10))
    IN  get_noise_2d(uniforms.noise, Add(Mul(x, cloud_zoom), Mul(t, Q(1, 2))),
                     Add(Mul(y, cloud_zoom), Mul(t, Q(1, 2))))

\* earth_clouds: the blend factor passed to lerp
earth_lerp_t(fragment, uniforms) ==
    LET cloud_noise == earth_cloud_noise(fragment, uniforms)
        cloud_intensity == Sub(Clamp(cloud_noise, Q(4, 10), Q(7, 10)), Q(4, 10))
    IN  IF Gt(cloud_noise, Q(6, 10)) THEN Mul(cloud_intensity, Q(1, 2)) ELSE Q(1, 10)

\* earth_clouds: final_color, before the intensity is applied
earth_final_color(fragment, uniforms) ==
    LET cloud_color == Color_new(255, 255, 255)
        sky_gradient == Color_new(135, 206, 250)
        base_color == earth_base_color(fragment, uniforms)
        t == earth_lerp_t(fragment, uniforms)
    IN  IF Gt(earth_cloud_noise(fragment, uniforms), Q(6, 10))
        THEN lerp(base_color, cloud_color, t)
        ELSE lerp(base_color, sky_gradient, t)

earth_clouds(fragment, uniforms) ==
    Scale(earth_final_color(fragment, uniforms), fragment.intensity)

\* dynamic_cellular_shader: final_color, before the intensity is applied
cellular_final_color(fragment, uniforms) ==
    LET zoom == F(30)
        flow_speed == Q(1, 10)
        time == Mul(F(uniforms.time), flow_speed)
        x == fragment.vertex_position[1]
        y == fragment.vertex_position[2]
        cell_noise_value ==
            Abs(get_noise_2d(uniforms.noise, Mul(x, zoom), Add(Mul(y, zoom), time)))
        energy_color_1 == Color_new(255, 69, 0)
        energy_color_2 == Color_new(255, 140, 0)
        energy_color_3 == Color_new(255, 215, 0)
        energy_color_4 == Color_new(255, 255, 153)
    IN  IF Lt(cell_noise_value, Q(2, 10)) THEN energy_color_1
        ELSE IF Lt(cell_noise_value, Q(5, 10)) THEN energy_color_2
        ELSE IF Lt(cell_noise_value, Q(8, 10)) THEN energy_color_3
        ELSE energy_color_4

dynamic_cellular_shader(fragment, uniforms) ==
    Scale(cellular_final_color(fragment, uniforms), fragment.intensity)

default_shader(fragment, uniforms) == fragment.color

-----------------------------------------------------------------------------
(* noise_shader: a 7x7 grid of moving circles, lit by its own light        *)

radius == Q(1, 10)

\* the grid offsets -3..=3 of both loops
GridMin == -3
GridMax == 3

\* the loop body's test: is pos within `radius` of the circle at offset (ci, cj)
dist_to_circle(pos, utime, ci, cj) ==
    LET speed == Q(2, 10)
        time == Mul(F(utime), Q(1, 100))
        offset_x == Add(Mul(F(ci), Q(3, 10)), Mul(time, speed))
        offset_y == Add(Mul(F(cj), Q(3, 10)), Mul(Mul(time, speed), Q(1, 2)))
    IN  Sqrt(Add(Sq(Sub(pos[1], offset_x)), Sq(Sub(pos[2], offset_y))))

InCircle(pos, utime, ci, cj) == Lt(dist_to_circle(pos, utime, ci, cj), radius)

\* the inner loop from cj on: 1.0 at the first hit, else circle_mask stays 0.0
RECURSIVE InnerLoop(_, _, _, _)
InnerLoop(pos, utime, ci, cj) ==
    IF cj > GridMax THEN F(0)
    ELSE IF InCircle(pos, utime, ci, cj) THEN F(1)
    ELSE InnerLoop(pos, utime, ci, cj + 1)

\* the outer loop from ci on: breaks as soon as the inner loop set the mask
RECURSIVE OuterLoop(_, _, _)
OuterLoop(pos, utime, ci) ==
    IF ci > GridMax THEN F(0)
    ELSE IF InnerLoop(pos, utime, ci, GridMin) = F(1) THEN F(1)
    ELSE OuterLoop(pos, utime, ci + 1)

\* the lighting term noise_shader computes from the fragment's normal
noise_intensity(fragment) ==
    LET light_dir == Normalize3(<<F(1), F(1), F(1)>>)
        normal == Normalize3(fragment.normal)
    IN  Max(Dot3(normal, light_dir), F(0))

\* the colour noise_shader returns for a finished search
noise_color(mask, fragment) ==
    LET intensity == noise_intensity(fragment)
    IN  IF Gt(mask, Q(1, 2))
        THEN Scale(Color_new(0, 0, 0), intensity)
        ELSE Scale(Color_new(255, 255, 255), Add(Q(1, 2), Mul(intensity, Q(1, 2))))

noise_shader(fragment, uniforms) ==
    noise_color(OuterLoop(fragment.vertex_position, uniforms.time, GridMin), fragment)

-----------------------------------------------------------------------------
(* The two entry points *)

\* faulty variant: an unknown index falls back to default_shader (the fragment's colour)
fragment_shader_default(fragment, uniforms, current_shader) ==
    CASE current_shader = 0 -> sun_shader(fragment, uniforms)
      [] current_shader = 1 -> earth_clouds(fragment, uniforms)
      [] current_shader = 2 -> noise_shader(fragment, uniforms)
      [] current_shader = 3 -> moon_shader_bright_craters(fragment, uniforms)
      [] current_shader = 4 -> ripple_shader(fragment, uniforms)
      [] current_shader = 5 -> dynamic_cellular_shader(fragment, uniforms)
      [] OTHER -> default_shader(fragment, uniforms)

fragment_shader(fragment, uniforms, current_shader) ==
    CASE current_shader = 0 -> sun_shader(fragment, uniforms)
      [] current_shader = 1 -> earth_clouds(fragment, uniforms)
      [] current_shader = 2 -> noise_shader(fragment, uniforms)
      [] current_shader = 3 -> moon_shader_bright_craters(fragment, uniforms)
      [] current_shader = 4 -> ripple_shader(fragment, uniforms)
      [] current_shader = 5 -> dynamic_cellular_shader(fragment, uniforms)
      [] OTHER -> dynamic_cellular_shader(fragment, uniforms)

\* the blend factors a call of fragment_shader passes to Color::lerp: sun_shader,
\* earth_clouds and ripple_shader call lerp once, the other variants never
LerpArguments(fragment, uniforms, current_shader) ==
    CASE current_shader = 0 -> <<sun_lerp_t(fragment, uniforms)>>
      [] current_shader = 1 -> <<earth_lerp_t(fragment, uniforms)>>
      [] current_shader = 4 -> <<ripple_color_factor(fragment, uniforms)>>
      [] OTHER -> <<>>

\* faulty variant: the matrices multiplied in the reverse order
ClipPosition_reversed(vertex, uniforms) ==
    LET position == <<vertex.position[1], vertex.position[2], vertex.position[3], F(1)>>
    IN  MatVec4(MatMul4(MatMul4(uniforms.model_matrix, uniforms.view_matrix),
                        uniforms.projection_matrix), position)

\* projection * view * model * (position, 1): the clip-space position
ClipPosition(vertex, uniforms) ==
    LET position == <<vertex.position[1], vertex.position[2], vertex.position[3], F(1)>>
    IN  MatVec4(MatMul4(MatMul4(uniforms.projection_matrix, uniforms.view_matrix),
                        uniforms.model_matrix), position)

\* the normal matrix applied to the normal; the identity when there is no inverse
TransformedNormal(vertex, uniforms) ==
    LET model_mat3 == mat4_to_mat3(uniforms.model_matrix)
        normal_matrix == unwrap_or(try_inverse(Transpose3(model_mat3)), Identity3)
    IN  MatVec3(normal_matrix, vertex.normal)

\* faulty variant: a zero w is guarded, the divide is skipped
PerspectiveDivide_guarded(transformed) ==
    LET w == IF transformed[4] = F(0) THEN F(1) ELSE transformed[4]
    IN  <<Div(transformed[1], w), Div(transformed[2], w), Div(transformed[3], w), F(1)>>

\* the perspective divide: x, y, z over w, and w set to 1
PerspectiveDivide(transformed) ==
    LET w == transformed[4]
    IN  <<Div(transformed[1], w), Div(transformed[2], w), Div(transformed[3], w), F(1)>>

\* faulty variant: the transformed values are written into position and normal too
vertex_shader_overwrite(vertex, uniforms) ==
    LET screen_position ==
            MatVec4(uniforms.viewport_matrix, PerspectiveDivide(ClipPosition(vertex, uniforms)))
        transformed_position == <<screen_position[1], screen_position[2], screen_position[3]>>
        model_mat3 == mat4_to_mat3(uniforms.model_matrix)
        transformed_normal ==
            MatVec3(unwrap_or(try_inverse(Transpose3(model_mat3)), Identity3), vertex.normal)
    IN  [ position |-> transformed_position,
          normal |-> transformed_normal,
          tex_coords |-> vertex.tex_coords,
          color |-> vertex.color,
          transformed_position |-> transformed_position,
          transformed_normal |-> transformed_normal ]

vertex_shader(vertex, uniforms) ==
    LET transformed == ClipPosition(vertex, uniforms)
        transformed_position == PerspectiveDivide(transformed)
        screen_position == MatVec4(uniforms.viewport_matrix, transformed_position)
        transformed_normal == TransformedNormal(vertex, uniforms)
    IN  [ position |-> vertex.position,
          normal |-> vertex.normal,
          tex_coords |-> vertex.tex_coords,
          color |-> vertex.color,
          transformed_position |->
              <<screen_position[1], screen_position[2], screen_position[3]>>,
          transformed_normal |-> transformed_normal ]

-----------------------------------------------------------------------------
(* Inputs of the calls *)

V3(x, y, z) == <<x, y, z>>

Row(a, b, c, d) == <<F(a), F(b), F(c), F(d)>>

\* model matrices: identity, scale and translate, shear (not symmetric),
\* a quarter turn about z with a scale, and two with a singular 3x3 block
ModelMatrices ==
    { Identity4,
      <<Row(2, 0, 0, 1), Row(0, 3, 0, -1), Row(0, 0, 4, 2), Row(0, 0, 0, 1)>>,
      <<Row(1, 2, 0, 1), Row(0, 1, 0, 0), Row(0, 0, 1, 0), Row(0, 0, 0, 1)>>,
      <<Row(0, -2, 0, 0), Row(1, 0, 0, 0), Row(0, 0, 1, 0), Row(0, 0, 0, 1)>>,
      <<Row(1, 0, 0, 0), Row(0, 0, 0, 0), Row(0, 0, 1, 0), Row(0, 0, 0, 1)>>,
      <<Row(1, 2, 3, 0), Row(2, 4, 6, 1), Row(0, 0, 1, 0), Row(0, 0, 0, 1)>> }

\* view matrices: identity, and the camera moved back by 2
ViewMatrices ==
    { Identity4,
      <<Row(1, 0, 0, 0), Row(0, 1, 0, 0), Row(0, 0, 1, -2), Row(0, 0, 0, 1)>> }

\* projections: identity, and a perspective (near 1, far 3) with w = -z
ProjectionMatrices ==
    { Identity4,
      <<Row(1, 0, 0, 0), Row(0, 1, 0, 0), Row(0, 0, -2, -3), Row(0, 0, -1, 0)>> }

\* viewports: identity, and an 800x600 window
ViewportMatrices ==
    { Identity4,
      <<Row(400, 0, 0, 400), Row(0, -300, 0, 300), Row(0, 0, 1, 0), Row(0, 0, 0, 1)>> }

\* uniforms.time values (frame ticks)
Times == {0, 10, 50}

MakeUniforms(m, v, p, vp, t, n) ==
    [ model_matrix |-> m, view_matrix |-> v, projection_matrix |-> p,
      viewport_matrix |-> vp, time |-> t, noise |-> n ]

\* the uniforms the vertex stage is called with
VertexUniforms ==
    { MakeUniforms(m, v, p, vp, 0, 0) :
        m \in ModelMatrices, v \in ViewMatrices,
        p \in ProjectionMatrices, vp \in ViewportMatrices }

\* the uniforms the fragment stage is called with
FragmentUniforms ==
    { MakeUniforms(Identity4, Identity4, Identity4, Identity4, t, n) :
        t \in Times, n \in Seeds }

Vertices ==
    { [ position |-> p, normal |-> n, tex_coords |-> <<Q(1, 2), Q(1, 4)>>,
        color |-> Color_new(10, 20, 30),
        transformed_position |-> V3(F(0), F(0), F(0)),
        transformed_normal |-> V3(F(0), F(0), F(0)) ] :
        p \in { V3(F(1), F(0), F(0)), V3(F(0), F(0), F(0)),
                V3(F(1), F(2), F(-1)), V3(Q(1, 2), F(-1), F(2)) },
        n \in { V3(F(0), F(0), F(1)), V3(F(1), F(0), F(0)), V3(F(1), F(2), F(3)) } }

FragmentPositions ==
    { V3(F(0), F(0), F(0)), V3(Q(15, 100), Q(15, 100), F(0)),
      V3(Q(35, 100), Q(-55, 100), F(1)), V3(Q(-85, 100), Q(8, 10), F(0)),
      V3(Q(12, 10), Q(5, 100), F(0)), V3(Q(1, 100), Q(2, 100), F(0)) }

FragmentNormals == { V3(F(0), F(0), F(1)), V3(F(1), F(1), F(1)), V3(F(0), F(0), F(0)) }

Intensities == { F(0), Q(1, 2), F(1) }

MakeFragment(p, n, k) ==
    [ vertex_position |-> p, normal |-> n, intensity |-> k,
      color |-> Color_new(10, 20, 30) ]

\* every position with every intensity, and with every normal
Fragments ==
    { MakeFragment(p, V3(F(0), F(0), F(1)), k) : p \in FragmentPositions, k \in Intensities }
    \cup { MakeFragment(p, n, F(1)) : p \in FragmentPositions, n \in FragmentNormals }

\* the shader indices tried: 0..MaxShaderIndex, 999 and a very large u32
MaxShaderIndex == 6

ShaderIndices == (0..MaxShaderIndex) \cup {999, 2147483647}

-----------------------------------------------------------------------------
(* The sequential caller: one call at a time, to either entry point *)

NoCall == [fn |-> "none"]
NoValue == <<>>

LoopIdle ==
    /\ circle_mask = F(0) /\ i = GridMin /\ j = GridMin /\ iters = 0
    /\ lpc = "off" /\ lfragment = NoValue /\ luniforms = NoValue /\ lret = NoValue

ParIdle ==
    /\ shared = NoValue /\ wpc = <<>> /\ wcall = <<>> /\ wlocal = <<>> /\ wret = <<>>

SeqIdle == pc = "off" /\ call = NoCall /\ ret = NoValue /\ lerp_t = <<>>

Init ==
    /\ pc = "idle" /\ call = NoCall /\ ret = NoValue /\ lerp_t = <<>>
    /\ LoopIdle
    /\ ParIdle

\* the caller passes a vertex and the uniforms to vertex_shader
InvokeVertexShader ==
    /\ pc = "idle"
    /\ \E v \in Vertices, u \in VertexUniforms :
         call' = [fn |-> "vertex_shader", arg |-> v, uniforms |-> u, current_shader |-> 0]
    /\ pc' = "running"
    /\ ret' = NoValue /\ lerp_t' = <<>>
    /\ UNCHANGED <<loopVars, parVars>>

\* the caller passes a fragment, the uniforms and a shader index to fragment_shader
InvokeFragmentShader ==
    /\ pc = "idle"
    /\ \E f \in Fragments, u \in FragmentUniforms, idx \in ShaderIndices :
         call' = [fn |-> "fragment_shader", arg |-> f, uniforms |-> u,
                  current_shader |-> idx]
    /\ pc' = "running"
    /\ ret' = NoValue /\ lerp_t' = <<>>
    /\ UNCHANGED <<loopVars, parVars>>

\* vertex_shader runs and returns a new Vertex; its arguments are borrowed
RunVertexShader ==
    /\ pc = "running" /\ call.fn = "vertex_shader"
    /\ ret' = vertex_shader(call.arg, call.uniforms)
    /\ pc' = "done"
    /\ UNCHANGED <<call, lerp_t, loopVars, parVars>>

\* fragment_shader runs and returns a Color; its arguments are borrowed
RunFragmentShader ==
    /\ pc = "running" /\ call.fn = "fragment_shader"
    /\ ret' = fragment_shader(call.arg, call.uniforms, call.current_shader)
    /\ lerp_t' = LerpArguments(call.arg, call.uniforms, call.current_shader)
    /\ pc' = "done"
    /\ UNCHANGED <<call, loopVars, parVars>>

\* the caller takes the result and goes on to its next call
NextCall ==
    /\ pc = "done"
    /\ pc' = "idle" /\ call' = NoCall /\ ret' = NoValue /\ lerp_t' = <<>>
    /\ UNCHANGED <<loopVars, parVars>>

Next == InvokeVertexShader \/ InvokeFragmentShader \/ RunVertexShader
        \/ RunFragmentShader \/ NextCall

Spec == Init /\ [][Next]_vars

-----------------------------------------------------------------------------
(* noise_shader's circle search, one loop step at a time *)

LoopInit ==
    /\ SeqIdle /\ ParIdle
    /\ lfragment \in { f \in Fragments : f.intensity = F(1) }
    /\ luniforms \in { u \in FragmentUniforms : u.noise = 0 }
    /\ circle_mask = F(0) /\ i = GridMin /\ j = GridMin /\ iters = 0
    /\ lpc = "outer" /\ lret = NoValue

LoopFrame == UNCHANGED <<lfragment, luniforms, seqVars, parVars>>

\* for i in -3..=3: the next row is entered
OuterEnter ==
    /\ lpc = "outer" /\ i <= GridMax
    /\ j' = GridMin /\ lpc' = "inner"
    /\ UNCHANGED <<circle_mask, i, iters, lret>> /\ LoopFrame

\* for i in -3..=3: the range is exhausted
OuterExhausted ==
    /\ lpc = "outer" /\ i > GridMax
    /\ lpc' = "color"
    /\ UNCHANGED <<circle_mask, i, j, iters, lret>> /\ LoopFrame

\* faulty variant: the mask is set but the inner break is missing
BodyHit_no_break ==
    /\ lpc = "inner" /\ j <= GridMax
    /\ InCircle(lfragment.vertex_position, luniforms.time, i, j)
    /\ circle_mask' = F(1) /\ iters' = iters + 1 /\ j' = j + 1
    /\ UNCHANGED <<i, lpc, lret>> /\ LoopFrame

\* the loop body finds the fragment inside the circle: mask set, inner break
BodyHit ==
    /\ lpc = "inner" /\ j <= GridMax
    /\ InCircle(lfragment.vertex_position, luniforms.time, i, j)
    /\ circle_mask' = F(1) /\ iters' = iters + 1 /\ lpc' = "check"
    /\ UNCHANGED <<i, j, lret>> /\ LoopFrame

\* the loop body finds the fragment outside the circle: next column
BodyMiss ==
    /\ lpc = "inner" /\ j <= GridMax
    /\ ~InCircle(lfragment.vertex_position, luniforms.time, i, j)
    /\ j' = j + 1 /\ iters' = iters + 1
    /\ UNCHANGED <<circle_mask, i, lpc, lret>> /\ LoopFrame

\* for j in -3..=3: the range is exhausted
InnerExhausted ==
    /\ lpc = "inner" /\ j > GridMax
    /\ lpc' = "check"
    /\ UNCHANGED <<circle_mask, i, j, iters, lret>> /\ LoopFrame

\* if circle_mask == 1.0 { break; }
BreakOuter ==
    /\ lpc = "check" /\ circle_mask = F(1)
    /\ lpc' = "color"
    /\ UNCHANGED <<circle_mask, i, j, iters, lret>> /\ LoopFrame

\* no hit in this row: on to the next
NextRow ==
    /\ lpc = "check" /\ circle_mask # F(1)
    /\ i' = i + 1 /\ lpc' = "outer"
    /\ UNCHANGED <<circle_mask, j, iters, lret>> /\ LoopFrame

\* the colour is chosen from the mask and returned
ReturnColor ==
    /\ lpc = "color"
    /\ lret' = noise_color(circle_mask, lfragment)
    /\ lpc' = "done"
    /\ UNCHANGED <<circle_mask, i, j, iters>> /\ LoopFrame

LoopNext == OuterEnter \/ OuterExhausted \/ BodyHit \/ BodyMiss \/ InnerExhausted
            \/ BreakOuter \/ NextRow \/ ReturnColor

SpecLoop == LoopInit /\ [][LoopNext]_vars

-----------------------------------------------------------------------------
(* Concurrent workers calling both entry points over one shared Uniforms.   *)
(* A call reads the uniforms through its shared borrow at several points    *)
(* of its body; other workers' steps may fall between two reads.            *)

NumWorkers == 2

Workers == 1..NumWorkers

\* the Uniforms of the draw call the workers share
ParUniforms ==
    { MakeUniforms(m, Identity4, p, Identity4, t, n) :
        m \in { Identity4,
                <<Row(1, 2, 0, 1), Row(0, 1, 0, 0), Row(0, 0, 1, 0), Row(0, 0, 0, 1)>> },
        p \in ProjectionMatrices \ {Identity4}, t \in {10}, n \in {3, 7} }

\* the calls a worker makes
ParCalls ==
    { [fn |-> "vertex_shader", arg |-> v, uniforms |-> NoValue, current_shader |-> 0] :
        v \in { x \in Vertices : x.position = V3(F(1), F(2), F(-1))
                                 /\ x.normal = V3(F(1), F(2), F(3)) } }
    \cup
    { [fn |-> "fragment_shader", arg |-> f, uniforms |-> NoValue, current_shader |-> idx] :
        f \in { x \in Fragments : x.intensity = F(1) /\ x.normal = V3(F(1), F(1), F(1))
                                  /\ x.vertex_position[1] \in {F(0), Q(15, 100)} },
        idx \in {0, 6} }

ParInit ==
    /\ SeqIdle /\ LoopIdle
    /\ shared \in ParUniforms
    /\ wpc = [w \in Workers |-> "idle"]
    /\ wcall = [w \in Workers |-> NoCall]
    /\ wlocal = [w \in Workers |-> NoValue]
    /\ wret = [w \in Workers |-> NoValue]

ParFrame == UNCHANGED <<seqVars, loopVars>>

\* worker w is handed a vertex or a fragment and enters the function
WorkerInvoke(w) ==
    /\ wpc[w] = "idle"
    /\ \E c \in ParCalls : wcall' = [wcall EXCEPT ![w] = c]
    /\ wpc' = [wpc EXCEPT ![w] = "entered"]
    /\ wret' = [wret EXCEPT ![w] = NoValue]
    /\ UNCHANGED <<shared, wlocal>> /\ ParFrame

\* the first reads of the body: the three transform matrices (vertex_shader,
\* line 15) or the time (each variant's first statement)
WorkerRead(w) ==
    /\ wpc[w] = "entered"
    /\ wlocal' = [wlocal EXCEPT ![w] =
                    [ projection_matrix |-> shared.projection_matrix,
                      view_matrix |-> shared.view_matrix,
                      model_matrix |-> shared.model_matrix,
                      time |-> shared.time ]]
    /\ wpc' = [wpc EXCEPT ![w] = "read"]
    /\ UNCHANGED <<shared, wcall, wret>> /\ ParFrame

\* the uniforms as worker w has seen them: its early reads, the rest as of now
Seen(w) ==
    [ shared EXCEPT !.projection_matrix = wlocal[w].projection_matrix,
                    !.view_matrix = wlocal[w].view_matrix,
                    !.model_matrix = wlocal[w].model_matrix,
                    !.time = wlocal[w].time ]

\* the value worker w's call returns: the later reads (viewport_matrix, then
\* model_matrix again for the normal matrix; the noise source) happen now
WorkerResult(w) ==
    IF wcall[w].fn = "vertex_shader"
    THEN [ vertex_shader(wcall[w].arg, Seen(w))
             EXCEPT !.transformed_normal = TransformedNormal(wcall[w].arg, shared) ]
    ELSE fragment_shader(wcall[w].arg, Seen(w), wcall[w].current_shader)

\* faulty variant: the call advances the shared time before it returns
WorkerFinish_writes(w) ==
    /\ wpc[w] = "read"
    /\ wret' = [wret EXCEPT ![w] = WorkerResult(w)]
    /\ wpc' = [wpc EXCEPT ![w] = "done"]
    /\ shared' = [shared EXCEPT !.time = IF @ < 30 THEN @ + 10 ELSE @]
    /\ UNCHANGED <<wcall, wlocal>> /\ ParFrame

\* the rest of the body runs and the call returns; nothing shared is written
WorkerFinish(w) ==
    /\ wpc[w] = "read"
    /\ wret' = [wret EXCEPT ![w] = WorkerResult(w)]
    /\ wpc' = [wpc EXCEPT ![w] = "done"]
    /\ UNCHANGED <<shared, wcall, wlocal>> /\ ParFrame

\* the worker takes its result and goes on to its next item
WorkerNext(w) ==
    /\ wpc[w] = "done"
    /\ wpc' = [wpc EXCEPT ![w] = "idle"]
    /\ wcall' = [wcall EXCEPT ![w] = NoCall]
    /\ wlocal' = [wlocal EXCEPT ![w] = NoValue]
    /\ wret' = [wret EXCEPT ![w] = NoValue]
    /\ UNCHANGED shared /\ ParFrame

ParNext ==
    \E w \in Workers :
        WorkerInvoke(w) \/ WorkerRead(w) \/ WorkerFinish(w) \/ WorkerNext(w)

SpecPar == ParInit /\ [][ParNext]_vars

-----------------------------------------------------------------------------
(* Properties *)

VertexDone == pc = "done" /\ call.fn = "vertex_shader"

FragmentDone == pc = "done" /\ call.fn = "fragment_shader"

IsColor(c) == DOMAIN c = 1..3 /\ \A k \in 1..3 : c[k] \in 0..255

VertexFields ==
    {"position", "normal", "tex_coords", "color", "transformed_position",
     "transformed_normal"}

\* C1: fragment_shader dispatches 0..5 to sun_shader, earth_clouds, noise_shader,
\* moon_shader_bright_craters, ripple_shader and dynamic_cellular_shader; every
\* index >= 6 returns the colour index 5 returns for the same fragment and
\* uniforms; the result is always a colour, never an error.
C1_Dispatch ==
    FragmentDone =>
        LET f == call.arg
            u == call.uniforms
            k == call.current_shader
        IN  /\ IsColor(ret)
            /\ k = 0 => ret = sun_shader(f, u)
            /\ k = 1 => ret = earth_clouds(f, u)
            /\ k = 2 => ret = noise_shader(f, u)
            /\ k = 3 => ret = moon_shader_bright_craters(f, u)
            /\ k = 4 => ret = ripple_shader(f, u)
            /\ k = 5 => ret = dynamic_cellular_shader(f, u)
            /\ k >= 6 => /\ ret = dynamic_cellular_shader(f, u)
                         /\ ret = fragment_shader(f, u, 5)

\* an index far outside 0..5 was shaded, to a colour that is not the fragment's own
C1_Witness ==
    /\ FragmentDone
    /\ call.current_shader = 999
    /\ ret # call.arg.color
    /\ ret # Black

\* the colour a variant has computed when it reaches its last statement
PreScalingColor(f, u, k) ==
    CASE k = 0 -> sun_final_color(f, u)
      [] k = 1 -> earth_final_color(f, u)
      [] k = 2 -> IF Gt(OuterLoop(f.vertex_position, u.time, GridMin), Q(1, 2))
                  THEN Color_new(0, 0, 0) ELSE Color_new(255, 255, 255)
      [] k = 3 -> moon_base_color(f, u)
      [] k = 4 -> ripple_final_color(f, u)
      [] OTHER -> cellular_final_color(f, u)

\* C2 as stated: every one of the six variants returns black at intensity 0 and
\* its pre-scaling colour at intensity 1.
C2_AllVariantsScaleByIntensity ==
    (FragmentDone /\ call.current_shader \in 0..5) =>
        LET f == call.arg
            pre == PreScalingColor(f, call.uniforms, call.current_shader)
        IN  /\ f.intensity = F(0) => ret = Black
            /\ f.intensity = F(1) => ret = pre

\* C2 amended: sun_shader, earth_clouds, moon_shader_bright_craters, ripple_shader
\* and dynamic_cellular_shader return their computed colour times
\* fragment.intensity (black at 0, the computed colour at 1); noise_shader does
\* not read fragment.intensity: it returns black or white scaled by the lighting
\* term it derives from fragment.normal.
C2_FiveVariantsScaleByIntensity ==
    (FragmentDone /\ call.current_shader \in 0..5) =>
        LET f == call.arg
            u == call.uniforms
            k == call.current_shader
            pre == PreScalingColor(f, u, k)
            light == noise_intensity(f)
        IN  /\ k # 2 => /\ ret = Scale(pre, f.intensity)
                        /\ f.intensity = F(0) => ret = Black
                        /\ f.intensity = F(1) => ret = pre
            /\ k = 2 => /\ ret = fragment_shader([f EXCEPT !.intensity = F(0)], u, k)
                        /\ ret = fragment_shader([f EXCEPT !.intensity = F(1)], u, k)
                        /\ pre = Black => ret = Scale(pre, light)
                        /\ pre # Black => ret = Scale(pre, Add(Q(1, 2), Mul(light, Q(1, 2))))

\* ripple_shader turned a colour that is not black into black at intensity 0
C2_Witness ==
    /\ FragmentDone
    /\ call.current_shader = 4
    /\ call.arg.intensity = F(0)
    /\ ripple_final_color(call.arg, call.uniforms) # Black
    /\ ret = Black

\* the clip-space position, one matrix applied after the other
ClipByParts(v, u) ==
    MatVec4(u.projection_matrix,
            MatVec4(u.view_matrix,
                    MatVec4(u.model_matrix,
                            <<v.position[1], v.position[2], v.position[3], F(1)>>)))

\* C3: with a non-zero clip-space w, transformed_position is x, y, z of
\* viewport_matrix * (cx/w, cy/w, cz/w, 1), where (cx, cy, cz, w) is projection *
\* view * model * (position, 1); the viewport result's w is discarded.
C3_PerspectiveDivide ==
    VertexDone =>
        LET u == call.uniforms
            clip == ClipByParts(call.arg, u)
            w == clip[4]
            ndc == <<Div(clip[1], w), Div(clip[2], w), Div(clip[3], w), F(1)>>
            screen == MatVec4(u.viewport_matrix, ndc)
        IN  w # F(0) =>
                /\ DOMAIN ret.transformed_position = 1..3
                /\ ret.transformed_position = <<screen[1], screen[2], screen[3]>>

\* a vertex went through four matrices that are not the identity and a divide
\* by a w that is neither 0 nor 1
C3_Witness ==
    /\ VertexDone
    /\ ClipByParts(call.arg, call.uniforms)[4] \notin {F(0), F(1)}
    /\ call.uniforms.model_matrix # Identity4
    /\ call.uniforms.view_matrix # Identity4
    /\ call.uniforms.projection_matrix # Identity4
    /\ call.uniforms.viewport_matrix # Identity4
    /\ \A k \in 1..3 : IsFinite(ret.transformed_position[k])

\* C4: a singular upper-left 3x3 block of model_matrix leaves the normal
\* unchanged (identity substituted, no error); an invertible block gives the
\* transpose of its inverse applied to the normal, not renormalised.
C4_NormalMatrix ==
    VertexDone =>
        LET block == mat4_to_mat3(call.uniforms.model_matrix)
            normal == call.arg.normal
        IN  IF Det3(block) = F(0)
            THEN ret.transformed_normal = normal
            ELSE LET inverse == try_inverse(block)[1]
                 IN  /\ MatMul3(inverse, block) = Identity3
                     /\ MatMul3(block, inverse) = Identity3
                     /\ ret.transformed_normal = MatVec3(Transpose3(inverse), normal)

\* a model matrix with a singular block that is not zero kept the normal as it was
C4_Witness ==
    /\ VertexDone
    /\ Det3(mat4_to_mat3(call.uniforms.model_matrix)) = F(0)
    /\ call.uniforms.model_matrix[1][2] = F(2)
    /\ call.arg.normal = V3(F(1), F(2), F(3))
    /\ ret.transformed_normal = call.arg.normal

\* C5: the returned vertex has the input's position, normal, tex_coords and
\* color; only transformed_position and transformed_normal are computed; the
\* arguments (vertex and uniforms) are the same after the call as before.
C5_Frame ==
    /\ [](VertexDone =>
            /\ DOMAIN ret = VertexFields
            /\ ret.position = call.arg.position
            /\ ret.normal = call.arg.normal
            /\ ret.tex_coords = call.arg.tex_coords
            /\ ret.color = call.arg.color)
    /\ [][pc = "running" => call' = call]_vars

\* a call returned a vertex whose two computed fields differ from the input's
C5_Witness ==
    /\ VertexDone
    /\ ret.transformed_position # call.arg.transformed_position
    /\ ret.transformed_position # call.arg.position
    /\ ret.transformed_normal # call.arg.normal
    /\ ret.position = call.arg.position

\* C6: in moon_shader_bright_craters a noise value equal to crater_threshold
\* gives bright_crater_color and one equal to crater_threshold - 0.1 gives
\* dynamic_color, each scaled by the intensity: both bounds exclude equality.
C6_ThresholdExclusive ==
    (FragmentDone /\ call.current_shader = 3) =>
        LET f == call.arg
            n == moon_surface_noise(f, call.uniforms)
            threshold == crater_threshold(call.uniforms.time)
        IN  /\ n = threshold => ret = Scale(bright_crater_color, f.intensity)
            /\ n = Sub(threshold, Q(1, 10)) => ret = Scale(dynamic_color, f.intensity)

\* the noise met a pulsating threshold (not the resting 0.4) exactly
C6_Witness ==
    /\ FragmentDone
    /\ call.current_shader = 3
    /\ call.uniforms.time = 10
    /\ crater_threshold(10) # Q(4, 10)
    /\ moon_surface_noise(call.arg, call.uniforms) = crater_threshold(10)
    /\ call.arg.intensity = F(1)
    /\ ret = bright_crater_color

\* C7: a zero clip-space w is not guarded: the call still returns a vertex, all
\* three coordinates of transformed_position are infinite or NaN, and
\* transformed_normal and the copied fields are as in any other call.
C7_ZeroW ==
    VertexDone =>
        LET v == call.arg
            u == call.uniforms
        IN  ClipByParts(v, u)[4] = F(0) =>
                /\ DOMAIN ret = VertexFields
                /\ \A k \in 1..3 : ~IsFinite(ret.transformed_position[k])
                /\ ret.transformed_normal = TransformedNormal(v, u)
                /\ \A k \in 1..3 : IsFinite(ret.transformed_normal[k])
                /\ ret.position = v.position /\ ret.normal = v.normal
                /\ ret.tex_coords = v.tex_coords /\ ret.color = v.color

\* a vertex with clip-space w = 0 and x # 0 was transformed
C7_Witness ==
    /\ VertexDone
    /\ ClipByParts(call.arg, call.uniforms)[4] = F(0)
    /\ ClipByParts(call.arg, call.uniforms)[1] # F(0)
    /\ call.uniforms.viewport_matrix # Identity4
    /\ ~IsFinite(ret.transformed_position[1])

\* the value a call returns when it runs alone over uniforms u
Alone(c, u) ==
    IF c.fn = "vertex_shader" THEN vertex_shader(c.arg, u)
    ELSE fragment_shader(c.arg, u, c.current_shader)

\* C8: with any number of workers calling vertex_shader and fragment_shader
\* over the same Uniforms, in every interleaving each call returns what it
\* returns alone, and no step writes the shared Uniforms.
C8_Concurrent ==
    /\ [](\A w \in DOMAIN wpc : wpc[w] = "done" => wret[w] = Alone(wcall[w], shared))
    /\ [][shared' = shared]_vars

\* two workers finished a vertex call and a fragment call side by side
C8_Witness ==
    /\ DOMAIN wpc # {}
    /\ wpc[1] = "done" /\ wcall[1].fn = "vertex_shader"
    /\ wpc[2] = "done" /\ wcall[2].fn = "fragment_shader"

\* is pos inside any of the 49 circles
ExhaustiveHit(pos, utime) ==
    \E ci \in GridMin..GridMax, cj \in GridMin..GridMax : InCircle(pos, utime, ci, cj)

\* the steps of one row that is searched to its end: enter, 7 bodies, leave, check
RowSteps == (GridMax - GridMin + 1) + 3

\* an upper bound on the steps the search still takes
LoopMeasure ==
    CASE lpc = "outer" -> 2 + (GridMax + 1 - i) * RowSteps
      [] lpc = "inner" -> (GridMax + 1 - j) + 4 + (GridMax - i) * RowSteps
      [] lpc = "check" -> 3 + (GridMax - i) * RowSteps
      [] lpc = "color" -> 1
      [] OTHER -> 0

\* C9: the circle search visits offsets within -3..3 (at most 49 loop bodies),
\* runs no loop body after a hit, always terminates (every step lowers a
\* non-negative bound on the steps left, and only the final state has no step),
\* and returns the colour an exhaustive search over the 49 offsets gives.
C9_EarlyExit ==
    /\ [](/\ iters <= (GridMax - GridMin + 1) * (GridMax - GridMin + 1)
          /\ LoopMeasure >= 0
          /\ lpc \in {"outer", "inner", "check", "color", "done"}
          /\ LoopMeasure = 0 <=> lpc = "done"
          /\ (lpc = "inner" /\ j <= GridMax) => i \in GridMin..GridMax
          /\ lpc = "done" =>
               /\ lret = noise_color(IF ExhaustiveHit(lfragment.vertex_position,
                                                      luniforms.time)
                                     THEN F(1) ELSE F(0), lfragment)
               /\ lret = noise_shader(lfragment, luniforms))
    /\ [][circle_mask = F(1) => iters' = iters]_vars
    /\ [][LoopMeasure' < LoopMeasure]_vars

\* a search ended on a hit after more than one and fewer than 49 loop bodies
C9_Witness ==
    /\ lpc = "done"
    /\ circle_mask = F(1)
    /\ iters > 1
    /\ iters < 49
    /\ ExhaustiveHit(lfragment.vertex_position, luniforms.time)

InRange(t, lo, hi) == Le(lo, t) /\ Le(t, hi)

====
